---- MODULE Spec2Model ----
(***************************************************************************)
(* Model of the measurement procedures of local_experiment/ (startup,      *)
(* execute, shutdown) and of the instruments they drive.                   *)
(*                                                                         *)
(* Units.  Temperatures are integers in units of 0.01 K, magnetic fields   *)
(* and the setpoints of a stepped plan are integers in units of 0.005 T    *)
(* (one grid unit of current for iv_yokogawa).  A tolerance of 0.05 K is   *)
(* therefore 5, one of 0.005 T is 1.                                       *)
(*                                                                         *)
(* One run of one procedure is one behaviour: Init picks the script and    *)
(* its parameters, the actions are the statements of the script in program *)
(* order (pc), RequestStop is the operator and Fault a failing instrument  *)
(* call.  DriverSpec is a session of calls on the YokogawaGS200 driver of  *)
(* local_instrument/, made in any order on the source that iv_yokogawa     *)
(* has created.                                                            *)
(***************************************************************************)
EXTENDS Integers, Sequences, FiniteSets, TLC

\* ---------------------------------------------------------------- bounds
MaxUp == 1         \* largest max of a stepped plan, grid units
MaxDown == 1       \* largest -min of a stepped plan, grid units
MaxStep == 2       \* largest step of a stepped plan, grid units
MaxVolt == 1       \* the voltage across the sample is drawn from 0..MaxVolt
MaxPolls == 2      \* the poll and sleep counters of a settle loop saturate here
MaxSamples == 2    \* iterations of a continuous loop that are explored
TestStop == 4      \* stands for the 300 of np.arange(2, 300, 1) in test.py
MaxLevel == 13     \* source levels are drawn from -MaxLevel..MaxLevel, 0.1 mA
MaxRampTime == 2   \* ramp times are drawn from 0..MaxRampTime, 0.1 s

\* ------------------------------------------------------------- constants
StartTemp == 1000  \* set_temperature / min_temperature, 10 K
RampTemp == 1200   \* max_temperature, 12 K
TestStart == 2     \* first setpoint of test.py
HeatTemp == 30500  \* the 305 K control setpoint of test.py's startup
MinRampTime == 1   \* MIN_RAMP_TIME, 0.1 s

Procs == {"iv", "field4", "test", "tempv", "fieldv", "tempfield", "lockin"}
Stepped == {"iv", "field4", "test"}
Continuous == {"tempv", "fieldv", "tempfield", "lockin"}

Exceptions == {"HardwareFault", "ZeroDivisionError", "AttributeError"}

Abs(x) == IF x < 0 THEN -x ELSE x

Sat(n) == IF n < MaxPolls THEN n + 1 ELSE MaxPolls

\* ------------------------------------------------------------ pure parts

\* np.arange(start, stop, step) on the integer grid: start + k*step for
\* k = 0 .. ceil((stop - start) / step) - 1, empty when that is not positive.
Arange(start, stop, step) ==
    LET d == IF step > 0 THEN stop - start ELSE start - stop
        s == Abs(step)
        n == IF d <= 0 THEN 0 ELSE (d + s - 1) \div s
    IN  [k \in 1..n |-> start + (k - 1) * step]

\* The three legs of the stepped plan, concatenated.
SweepPlan_closed(mx, mn, st) ==
    Arange(0, mx, st) \o Arange(mx, mn, -st) \o Arange(mn, st, st)

SweepPlan(mx, mn, st) ==
    Arange(0, mx, st) \o Arange(mx, mn, -st) \o Arange(mn, 0, st)

\* The fields for which cryo_tempfieldsweep_4probe's queue() queues one run
\* each: its middle leg is built with +field_step.
QueuePlan(mx, mn, st) ==
    Arange(0, mx, st) \o Arange(mx, mn, st) \o Arange(mn, 0, st)

Plan(p, a) ==
    CASE p = "test" -> Arange(TestStart, TestStop, 1)
      [] p = "tempfield" -> QueuePlan(a.max, a.min, a.step)
      [] OTHER -> SweepPlan(a.max, a.min, a.step)

\* DATA_COLUMNS of a procedure.
DataColumns(p) ==
    CASE p = "iv" -> {"Current (A)", "Voltage (V)", "Resistance (ohm)"}
      [] p = "field4" -> {"Resistance (ohm)", "Voltage (V)", "Magnetic Field (T)"}
      [] p = "test" -> {"Set Temperature (K)", "Measure Temperature (K)"}
      [] p = "tempv" -> {"Temperature (K)", "Voltage (V)"}
      [] p = "fieldv" -> {"Temperature (K)", "Voltage (V)", "Magnetic Field (T)"}
      [] OTHER -> {"Temperature (K)", "Voltage (V)", "Resistance (ohm)"}

\* The keys of the dictionary that a procedure emits on "results".
EmitKeys(p) ==
    CASE p = "iv" -> {"Current (A)", "Voltage (V)", "Resistance (ohm)"}
      [] p = "field4" -> {"Magnetic Field (T)", "Voltage (V)", "Resistance (ohm)"}
      [] p = "test" -> {"Set Temperature (K)", "Measure Temperature (K)"}
      [] p = "tempv" -> {"Temperature (K)", "Voltage (V)"}
      [] p = "fieldv" -> {"Magnetic Field (T)", "Voltage (V)"}
      [] OTHER -> {"Temperature (K)", "Voltage (V)", "Resistance (ohm)"}

\* abs(readback - setpoint) < tolerance
Converged(r, sp, tol) == Abs(r - sp) < tol

\* Tolerance of the startup settle loops.
SettleTol(p, lp) ==
    CASE lp = "field" -> 1
      [] p = "field4" -> 5
      [] p = "fieldv" -> 1
      [] OTHER -> 10

\* Tolerance of the target test that ends a continuous loop.
StopTol(p) == IF p = "fieldv" THEN 2 ELSE 10


\* Exit test of a startup settle loop: the loops have no other exit (no
\* timeout, no stop poll).  n is the number of sleeps so far, s the stop flag.
SettleExit_timeout(r, sp, tol, n, s) == Converged(r, sp, tol) \/ n >= MaxPolls

SettleExit_stop(r, sp, tol, n, s) == Converged(r, sp, tol) \/ s

SettleExit(r, sp, tol, n, s) == Converged(r, sp, tol)

\* First statement of a settle loop iteration: the readback check.
SettleEntry_sleepfirst(p) == "settle_sleep"

SettleEntry(p) == "settle"

\* Statement that follows the command of a setpoint in a stepped loop.
AfterCommand_nowait(p) == "sample"

AfterCommand_noemit(p) == "check"

AfterCommand(p) == "wait"

\* First statement of the body of a continuous loop: the sample-interval
\* sleep; the target test comes after the emit.
RampEntry(p) == "wait"

\* First statement of the body of a stepped loop.
LoopEntry_checkfirst(p) == "check"

LoopEntry(p) == "cmd"

\* if self.should_stop(): ... break
ShouldBreak_never(s) == FALSE

ShouldBreak_always(s) == TRUE

ShouldBreak(s) == s

\* The resistance channel.  The operands are Python floats, so a zero
\* divisor raises ZeroDivisionError; only iv_yokogawa guards the division.
\* A finite quotient is kept as numerator and denominator.
Resistance(p, v, sp, ref) ==
    CASE p = "iv" -> IF sp = 0 THEN [kind |-> "nan", num |-> 0, den |-> 0]
                     ELSE [kind |-> "num", num |-> v, den |-> sp]
      [] p \in {"field4", "tempfield"} ->
                     IF ref = 0 THEN [kind |-> "ZeroDivisionError", num |-> v, den |-> 0]
                     ELSE [kind |-> "num", num |-> v, den |-> ref]
      [] p = "lockin" -> [kind |-> "num", num |-> v * 20, den |-> 1]
      [] OTHER -> [kind |-> "none", num |-> 0, den |-> 0]

\* The value written to the control-variable column of a record.
RecordedCtl_voltage(p, sp, r, v) == v

RecordedCtl(p, sp, r, v) == IF p \in {"iv", "test"} THEN sp ELSE r

\* ------------------------------------------------- YokogawaGS200, pure
\* Levels and ranges are in 0.1 mA (or 0.1 mV), times in 0.1 s.

\* values of source_range: 1e-3, 10e-3, 100e-3, 200e-3, 1, 10, 30.
SourceRanges == <<10, 100, 1000, 2000, 10000, 100000, 300000>>

\* truncated_discrete_set: the smallest listed value that is not below the
\* request, the largest listed value when there is none.
TruncatedDiscreteSet(v, values) ==
    IF \E k \in 1..Len(values) : values[k] >= v
    THEN values[CHOOSE k \in 1..Len(values) :
                    /\ values[k] >= v
                    /\ \A j \in 1..(k - 1) : values[j] < v]
    ELSE values[Len(values)]

\* values of source_mode: what the setter accepts and what the instrument
\* answers to :SOURce:FUNCtion?.
SourceModes == [current |-> "CURR", voltage |-> "VOLT"]

\* The getter of source_mode: the declaration has no map_values, so the
\* stripped answer of the instrument is returned as it is.
SourceModeGet(func) == func

\* The test of the setter of source_level: if level > self.source_range * 1.2
LevelRejected(level, range) == level * 10 > range * 12

\* What the setter of source_level writes and raises.
SourceLevelSet(level, range) ==
    IF LevelRejected(level, range)
    THEN [wrote |-> <<>>, raised |-> "ValueError"]
    ELSE [wrote |-> <<[cmd |-> "SOURce:LEVel", arg |-> level]>>, raised |-> "none"]

\* if ramp_time < MIN_RAMP_TIME
RampIsInstant_never(t) == FALSE

RampIsInstant(t) == t < MinRampTime

\* The source after reset() and before any call of the driver.
YokoReset ==
    [enabled |-> FALSE, func |-> "VOLT", mode |-> "none", range |-> SourceRanges[1],
     op |-> "reset", level |-> 0, time |-> 0, asked |-> <<>>, calls |-> <<>>,
     wrote |-> <<>>, raised |-> "none", ret |-> "none"]

\* ------------------------------------------------------------------ state
VARIABLES
    proc,       \* the script that is run
    par,        \* its parameters
    ideal,      \* TRUE: every readback equals the last written setpoint
    pc,         \* position in the script
    loop,       \* which startup settle loop: "temp" or "field"
    plan,       \* the setpoints of the stepped sweep
    i,          \* index of the current iteration
    voltage,    \* last meter reading
    reading,    \* last readback of the controlled quantity
    emitted,    \* the records sent on the results channel, in order
    stop,       \* should_stop()
    outcome,    \* how the run ended: "none" while it runs, "done", "cancelled",
                \* "exit" (sys.exit) or the exception that left the script
    handles,    \* FALSE once test.py has set its instrument handles to None
    faults,     \* instrument calls that have failed
    hw,         \* last commands: magnet field, heaters, control setpoint, source
    polls,      \* readback checks made by the current settle loop
    sleeps,     \* poll-interval sleeps of the current settle loop
    firstRead,  \* readback seen by the first check of the current settle loop
    settled,    \* settle loops that were left through a converged check
    slept,      \* the wait after the last command has been executed
    conv,       \* a readback within tolerance was seen since the last command
    commanded,  \* setpoints commanded by the loop of execute
    stopN,      \* number of records emitted when the stop was requested
    stopPc,     \* position of the script when the stop was requested
    cancels,    \* times the cancel branch of the loop was executed
    paused,     \* settle loops whose post-settle pause has been executed
    yoko,       \* the YokogawaGS200 source and the last call made on its driver
    magOk,      \* the magnet temperature check of startup has passed
    mgr         \* the experiments that queue() has handed to the manager

vars == <<proc, par, ideal, pc, loop, plan, i, voltage, reading, emitted, stop,
          outcome, handles, faults, hw, polls, sleeps, firstRead, settled,
          slept, conv, commanded, stopN, stopPc, cancels, paused, yoko,
          magOk, mgr>>

Voltages == 0..MaxVolt

\* Parameters that a script reads; the others stay at their defaults.  volt
\* is the voltage across the sample, which the meter reports during the run.
Params(p) ==
    [max  : IF p \in {"iv", "field4", "tempfield"} THEN 0..MaxUp ELSE {0},
     min  : IF p \in {"iv", "field4", "tempfield"} THEN (0 - MaxDown)..0 ELSE {0},
     step : IF p \in {"iv", "field4", "tempfield"} THEN 1..MaxStep ELSE {1},
     ref  : IF p \in {"field4", "tempfield", "lockin"} THEN {0, 1} ELSE {1},
     f0   : CASE p = "fieldv" -> 0..MaxUp
              [] p = "tempfield" -> (0 - MaxDown)..MaxUp
              [] OTHER -> {0},
     f1   : IF p = "fieldv" THEN 0..MaxUp ELSE {0},
     volt : Voltages]

\* The values that queue() can give to the field parameter of a run; the
\* default when it queues none.
QueuedFields(a) ==
    LET q == Plan("tempfield", a)
    IN  IF q = <<>> THEN {0} ELSE {q[k] : k \in 1..Len(q)}

\* What a readback of a quantity commanded to sp can return.
ReadChoices(sp, tol) ==
    IF ideal THEN {sp} ELSE {sp, sp - (tol - 1), sp + tol}

Init ==
    /\ proc \in Procs
    /\ par \in Params(proc)
    /\ proc = "tempfield" => par.f0 \in QueuedFields(par)
    /\ ideal \in BOOLEAN
    /\ pc = IF proc = "tempfield" THEN "queue" ELSE "config"
    /\ loop = "temp"
    /\ plan = <<>>
    /\ i = 0
    /\ voltage = 0
    /\ reading = 0
    /\ emitted = <<>>
    /\ stop = FALSE
    /\ outcome = "none"
    /\ handles = TRUE
    /\ faults = 0
    /\ hw = [magnet |-> 0, heat |-> FALSE, tset |-> 0, level |-> 0, srcOn |-> FALSE,
             meter |-> "off"]
    /\ polls = 0
    /\ sleeps = 0
    /\ firstRead = 0
    /\ settled = {}
    /\ slept = FALSE
    /\ conv = FALSE
    /\ commanded = 0
    /\ stopN = -1
    /\ stopPc = "none"
    /\ cancels = 0
    /\ paused = {}
    /\ yoko = YokoReset
    /\ magOk = FALSE
    /\ mgr = [k |-> 0, queued |-> <<>>, started |-> 0, running |-> {}]

\* Target of the current startup settle loop.
SettleTarget == IF loop = "field" THEN par.f0 ELSE StartTemp

\* Target of the continuous loop.
RampTarget == IF proc = "fieldv" THEN par.f1 ELSE RampTemp

\* ---------------------------------------------------------------- startup

\* queue() of cryo_tempfieldsweep_4probe: the fields are built and one run is
\* queued for each; the run that is followed is one of them.
Queue ==
    /\ pc = "queue"
    /\ plan' = Plan(proc, par)
    /\ pc' = IF Plan(proc, par) = <<>> THEN "end" ELSE "config"
    /\ UNCHANGED <<mgr, magOk, yoko, paused, proc, par, ideal, loop, i, voltage, reading,
                   emitted, stop, outcome, handles, faults, hw, polls, sleeps,
                   firstRead, settled, slept, conv, commanded, stopN, stopPc,
                   cancels>>

\* startup() up to its settle loop: instruments are created and configured.
Configure ==
    /\ pc = "config"
    /\ hw' = CASE proc = "iv" -> [hw EXCEPT !.srcOn = TRUE, !.meter = "on"]
               [] proc = "test" -> [hw EXCEPT !.tset = HeatTemp, !.heat = TRUE]
               [] proc \in {"field4", "tempfield", "lockin"} ->
                    [hw EXCEPT !.level = par.ref, !.srcOn = TRUE,
                               !.tset = StartTemp, !.heat = TRUE, !.meter = "on"]
               [] OTHER -> [hw EXCEPT !.tset = StartTemp, !.heat = TRUE,
                                      !.meter = "on"]
    /\ pc' = IF proc \in {"iv", "test"} THEN "plan" ELSE SettleEntry(proc)
    /\ UNCHANGED <<mgr, magOk, yoko, paused, proc, par, ideal, loop, plan, i, voltage, reading, emitted,
                   stop, outcome, handles, faults, polls, sleeps, firstRead,
                   settled, slept, conv, commanded, stopN, stopPc, cancels>>

\* Statement that follows the pause after a settle loop.
AfterSettle(p, lp) ==
    CASE p \in {"field4", "fieldv"} /\ lp = "temp" -> "magcheck"
      [] p = "tempfield" -> "setfield"
      [] OTHER -> "ramp"

\* Statement that follows the break of a settle loop: the fixed sleep.
AfterConverged_nopause(p, lp) == AfterSettle(p, lp)

AfterConverged(p, lp) == "postsettle"

\* while True: if abs(readback - target) < tol: break
SettlePoll ==
    /\ pc = "settle"
    /\ \E r \in ReadChoices(SettleTarget, SettleTol(proc, loop)) :
        /\ reading' = r
        /\ firstRead' = IF polls = 0 THEN r ELSE firstRead
        /\ IF SettleExit(r, SettleTarget, SettleTol(proc, loop), sleeps, stop)
           THEN /\ pc' = AfterConverged(proc, loop)
                /\ settled' = IF Converged(r, SettleTarget, SettleTol(proc, loop))
                              THEN settled \cup {loop} ELSE settled
           ELSE /\ pc' = "settle_sleep"
                /\ settled' = settled
    /\ polls' = Sat(polls)
    /\ UNCHANGED <<mgr, magOk, yoko, paused, proc, par, ideal, loop, plan, i, voltage, emitted, stop,
                   outcome, handles, faults, hw, sleeps, slept, conv,
                   commanded, stopN, stopPc, cancels>>

\* else: log.info(readback); sleep(1)
SettleSleep ==
    /\ pc = "settle_sleep"
    /\ sleeps' = Sat(sleeps)
    /\ pc' = "settle"
    /\ UNCHANGED <<mgr, magOk, yoko, paused, proc, par, ideal, loop, plan, i, voltage, reading, emitted,
                   stop, outcome, handles, faults, hw, polls, firstRead,
                   settled, slept, conv, commanded, stopN, stopPc, cancels>>

\* The fixed sleep after a settle loop (10, 15 or 30 seconds).
PostSettle ==
    /\ pc = "postsettle"
    /\ paused' = paused \cup {loop}
    /\ pc' = AfterSettle(proc, loop)
    /\ UNCHANGED <<mgr, magOk, yoko, proc, par, ideal, loop, plan, i, voltage, reading, emitted,
                   stop, outcome, handles, faults, hw, polls, sleeps,
                   firstRead, settled, slept, conv, commanded, stopN, stopPc,
                   cancels>>

\* Commands of the over-temperature branch, before sys.exit().
OverTempActions_heaterson(p, h) == [h EXCEPT !.meter = "reset", !.magnet = 0]

OverTempActions(p, h) == [h EXCEPT !.meter = "reset", !.heat = FALSE, !.magnet = 0]

\* The magnet temperature ceiling: too hot resets the meter, turns the
\* heaters off, commands zero magnet current and calls sys.exit(); cold
\* goes on (cryo_fieldsweep_voltage then commands the start field and
\* settles on it).
MagnetCheck ==
    /\ pc = "magcheck"
    /\ \E hot \in BOOLEAN :
        IF hot
        THEN /\ hw' = OverTempActions(proc, hw)
             /\ outcome' = "exit"
             /\ pc' = "shutdown"
             /\ UNCHANGED <<loop, polls, sleeps, magOk>>
        ELSE IF proc = "fieldv"
        THEN /\ hw' = [hw EXCEPT !.magnet = par.f0]
             /\ magOk' = TRUE
             /\ loop' = "field"
             /\ polls' = 0
             /\ sleeps' = 0
             /\ pc' = SettleEntry(proc)
             /\ UNCHANGED outcome
        ELSE /\ magOk' = TRUE
             /\ pc' = "plan"
             /\ UNCHANGED <<hw, outcome, loop, polls, sleeps>>
    /\ UNCHANGED <<mgr, yoko, paused, proc, par, ideal, plan, i, voltage, reading, emitted, stop,
                   handles, faults, firstRead, settled, slept, conv,
                   commanded, stopN, stopPc, cancels>>

\* cryo_tempfieldsweep_4probe: set_magnetic_field(self.field), then a sleep.
SetField ==
    /\ pc = "setfield"
    /\ hw' = [hw EXCEPT !.magnet = par.f0]
    /\ pc' = "ramp"
    /\ UNCHANGED <<mgr, magOk, yoko, paused, proc, par, ideal, loop, plan, i, voltage, reading, emitted,
                   stop, outcome, handles, faults, polls, sleeps, firstRead,
                   settled, slept, conv, commanded, stopN, stopPc, cancels>>

\* ---------------------------------------------------------------- execute

\* execute() of a stepped sweep up to its loop: the plan is built.
BuildPlan ==
    /\ pc = "plan"
    /\ plan' = Plan(proc, par)
    /\ IF Len(Plan(proc, par)) = 0
       THEN /\ outcome' = "done"
            /\ pc' = "shutdown"
            /\ i' = 0
       ELSE /\ pc' = LoopEntry(proc)
            /\ i' = 1
            /\ UNCHANGED outcome
    /\ UNCHANGED <<mgr, magOk, yoko, paused, proc, par, ideal, loop, voltage, reading, emitted, stop,
                   handles, faults, hw, polls, sleeps, firstRead, settled,
                   slept, conv, commanded, stopN, stopPc, cancels>>

\* execute() of a continuous sweep up to its loop: the target is commanded.
StartRamp ==
    /\ pc = "ramp"
    /\ hw' = IF proc = "fieldv" THEN [hw EXCEPT !.magnet = par.f1]
             ELSE [hw EXCEPT !.tset = RampTemp]
    /\ commanded' = commanded + 1
    /\ i' = 1
    /\ slept' = FALSE
    /\ conv' = FALSE
    /\ pc' = RampEntry(proc)
    /\ UNCHANGED <<mgr, magOk, yoko, paused, proc, par, ideal, loop, plan, voltage, reading, emitted,
                   stop, outcome, handles, faults, polls, sleeps, firstRead,
                   settled, stopN, stopPc, cancels>>

\* Top of the body of a stepped loop: the setpoint is written.  In test.py
\* the handles are None after a failed startup and the write raises.
Command ==
    /\ pc = "cmd"
    /\ IF ~handles
       THEN /\ outcome' = "AttributeError"
            /\ pc' = "shutdown"
            /\ UNCHANGED <<hw, commanded, slept, conv>>
       ELSE /\ hw' = CASE proc = "iv" -> [hw EXCEPT !.level = plan[i], !.srcOn = TRUE]
                       [] proc = "field4" -> [hw EXCEPT !.magnet = plan[i]]
                       [] OTHER -> [hw EXCEPT !.tset = plan[i]]
            /\ commanded' = commanded + 1
            /\ slept' = FALSE
            /\ conv' = FALSE
            /\ pc' = AfterCommand(proc)
            /\ UNCHANGED outcome
    /\ UNCHANGED <<mgr, magOk, yoko, paused, proc, par, ideal, loop, plan, i, voltage, reading, emitted,
                   stop, handles, faults, polls, sleeps, firstRead, settled,
                   stopN, stopPc, cancels>>

\* The wait before sampling: a fixed sleep, except in test.py, whose
\* wait_for_temperature returns once the readback is at the setpoint and
\* which has no meter to sample.
Wait ==
    /\ pc = "wait"
    /\ proc \in Continuous => Len(emitted) < MaxSamples
    /\ slept' = TRUE
    /\ IF proc = "test"
       THEN /\ reading' = plan[i]
            /\ conv' = TRUE
       ELSE UNCHANGED <<reading, conv>>
    /\ pc' = IF proc = "test" THEN "emit" ELSE "sample"
    /\ UNCHANGED <<mgr, magOk, yoko, paused, proc, par, ideal, loop, plan, i, voltage, emitted, stop,
                   outcome, handles, faults, hw, polls, sleeps, firstRead,
                   settled, commanded, stopN, stopPc, cancels>>

\* voltage = self.meter.voltage
Sample ==
    /\ pc = "sample"
    /\ voltage' = par.volt
    /\ pc' = "emit"
    /\ UNCHANGED <<mgr, magOk, yoko, paused, proc, par, ideal, loop, plan, i, reading, emitted, stop,
                   outcome, handles, faults, hw, polls, sleeps, firstRead,
                   settled, slept, conv, commanded, stopN, stopPc, cancels>>

\* Setpoint that governs the record being emitted.
CurrentSetpoint == IF proc \in Stepped THEN plan[i] ELSE RampTarget

\* Readbacks the emitting statement can see; iv_yokogawa reads nothing back.
EmitReads ==
    CASE proc = "iv" -> {reading}
      [] proc = "field4" -> ReadChoices(plan[i], 1)
      [] proc = "test" -> ReadChoices(plan[i], 1)
      [] OTHER -> ReadChoices(RampTarget, StopTol(proc))

\* Statement that follows the emit.
AfterEmit(p) ==
    CASE p = "field4" -> "pause"
      [] p \in Continuous -> "target"
      [] OTHER -> "check"

\* The readback, the derived channel and self.emit("results", ...).
Emit ==
    /\ pc = "emit"
    /\ \E r \in EmitReads :
        LET res == Resistance(proc, voltage, CurrentSetpoint, par.ref)
            c == IF proc = "iv" THEN conv
                 ELSE conv \/ Converged(r, CurrentSetpoint,
                                        IF proc \in Stepped THEN 1 ELSE StopTol(proc))
        IN  /\ reading' = r
            /\ IF res.kind = "ZeroDivisionError"
               THEN /\ outcome' = "ZeroDivisionError"
                    /\ pc' = "shutdown"
                    /\ UNCHANGED <<emitted, conv>>
               ELSE /\ emitted' = Append(emitted,
                            [step |-> i, sp |-> CurrentSetpoint,
                             ctl |-> RecordedCtl(proc, CurrentSetpoint, r, voltage),
                             v |-> voltage, res |-> res,
                             slept |-> slept, conv |-> c,
                             keys |-> EmitKeys(proc)])
                    /\ conv' = c
                    /\ pc' = AfterEmit(proc)
                    /\ UNCHANGED outcome
    /\ UNCHANGED <<mgr, magOk, yoko, paused, proc, par, ideal, loop, plan, i, voltage, stop, handles,
                   faults, hw, polls, sleeps, firstRead, settled, slept,
                   commanded, stopN, stopPc, cancels>>

\* The sleep between the emit and the stop check of cryo_fieldsweep_4probe,
\* and the sleep(10) that ends an iteration of test.py.
Pause ==
    /\ pc = "pause"
    /\ IF proc = "test"
       THEN IF i < Len(plan)
            THEN /\ i' = i + 1
                 /\ pc' = "cmd"
                 /\ UNCHANGED outcome
            ELSE /\ outcome' = "done"
                 /\ pc' = "shutdown"
                 /\ UNCHANGED i
       ELSE /\ pc' = "check"
            /\ UNCHANGED <<i, outcome>>
    /\ UNCHANGED <<mgr, magOk, yoko, paused, proc, par, ideal, loop, plan, voltage, reading, emitted,
                   stop, handles, faults, hw, polls, sleeps, firstRead,
                   settled, slept, conv, commanded, stopN, stopPc, cancels>>

\* The test that ends a continuous loop as completed, made on a readback
\* taken after the emit: if abs(readback - target) < tol: break.  s is the
\* stop flag, which the test does not read.
LoopDone_onesided(r, t, tol, s) == r > t - tol

LoopDone_unlessstop(r, t, tol, s) == Converged(r, t, tol) /\ ~s

LoopDone(r, t, tol, s) == Converged(r, t, tol)

\* Continuous loops: a second readback is compared with the target.
Target ==
    /\ pc = "target"
    /\ \E r \in ReadChoices(RampTarget, StopTol(proc)) :
        /\ reading' = r
        /\ IF LoopDone(r, RampTarget, StopTol(proc), stop)
           THEN /\ outcome' = "done"
                /\ pc' = "shutdown"
           ELSE /\ pc' = "check"
                /\ UNCHANGED outcome
    /\ UNCHANGED <<mgr, magOk, yoko, paused, proc, par, ideal, loop, plan, i, voltage, emitted, stop,
                   handles, faults, hw, polls, sleeps, firstRead, settled,
                   slept, conv, commanded, stopN, stopPc, cancels>>

\* Commands of the cancel branch of a loop.
CancelActions(p, h) ==
    CASE p \in {"field4", "fieldv"} ->
              [h EXCEPT !.meter = "reset", !.heat = FALSE, !.magnet = 0]
      [] p \in {"tempv", "tempfield", "lockin"} ->
              [h EXCEPT !.meter = "reset", !.heat = FALSE, !.tset = 0]
      [] OTHER -> h

\* if self.should_stop(): cancel actions; break -- and the loop's advance.
CheckStop ==
    /\ pc = "check"
    /\ IF ShouldBreak(stop)
       THEN /\ hw' = CancelActions(proc, hw)
            /\ cancels' = cancels + 1
            /\ outcome' = "cancelled"
            /\ pc' = "shutdown"
            /\ UNCHANGED i
       ELSE /\ UNCHANGED <<hw, cancels>>
            /\ CASE proc = "test" ->
                      /\ pc' = "pause"
                      /\ UNCHANGED <<i, outcome>>
                 [] proc \in Continuous ->
                      /\ pc' = "wait"
                      /\ i' = i + 1
                      /\ UNCHANGED outcome
                 [] OTHER ->
                      IF i < Len(plan)
                      THEN /\ i' = i + 1
                           /\ pc' = "cmd"
                           /\ UNCHANGED outcome
                      ELSE /\ outcome' = "done"
                           /\ pc' = "shutdown"
                           /\ UNCHANGED i
    /\ UNCHANGED <<mgr, magOk, yoko, paused, proc, par, ideal, loop, plan, voltage, reading, emitted,
                   stop, handles, faults, polls, sleeps, firstRead, settled,
                   slept, conv, commanded, stopN, stopPc>>

\* --------------------------------------------------------------- shutdown

\* Commands of shutdown().
ShutdownActions(p, h) ==
    CASE p = "iv" -> [h EXCEPT !.level = 0, !.srcOn = FALSE]
      [] p \in {"field4", "fieldv"} ->
              [h EXCEPT !.meter = "reset", !.tset = 0, !.heat = FALSE, !.magnet = 0]
      [] p \in {"tempv", "tempfield"} ->
              [h EXCEPT !.meter = "reset", !.tset = 0, !.heat = FALSE]
      [] p = "lockin" -> [h EXCEPT !.tset = 0, !.heat = FALSE]
      [] OTHER -> [h EXCEPT !.heat = FALSE]

\* shutdown(), which the worker calls after startup and execute however
\* they ended; with handles of None test.py's shutdown raises at once.
Shutdown ==
    /\ pc = "shutdown"
    /\ hw' = IF handles THEN ShutdownActions(proc, hw) ELSE hw
    /\ pc' = "end"
    /\ UNCHANGED <<mgr, magOk, yoko, paused, proc, par, ideal, loop, plan, i, voltage, reading, emitted,
                   stop, outcome, handles, faults, polls, sleeps, firstRead,
                   settled, slept, conv, commanded, stopN, stopPc, cancels>>

\* ------------------------------------------------------------ environment

\* Positions whose statement calls an instrument.
FaultPcs(p) ==
    {"config", "settle", "settle_sleep", "magcheck", "setfield", "ramp",
     "cmd", "sample", "target"}
    \cup (IF p = "iv" THEN {} ELSE {"emit"})
    \cup (IF p \in {"field4", "test"} THEN {"wait"} ELSE {})
    \cup (IF p = "field4" THEN {"postsettle"} ELSE {})

\* An instrument call raises: the exception leaves startup or execute.
Fault ==
    /\ pc \in FaultPcs(proc)
    /\ ~(proc = "test" /\ pc = "config")
    /\ handles
    /\ faults' = faults + 1
    /\ outcome' = "HardwareFault"
    /\ pc' = "shutdown"
    /\ UNCHANGED <<mgr, magOk, yoko, paused, proc, par, ideal, loop, plan, i, voltage, reading, emitted,
                   stop, handles, hw, polls, sleeps, firstRead, settled, slept,
                   conv, commanded, stopN, stopPc, cancels>>

\* test.py: an instrument call of startup raises inside its try block; the
\* except clause logs, sets both handles to None and startup returns.
Swallow ==
    /\ proc = "test"
    /\ pc = "config"
    /\ faults' = faults + 1
    /\ handles' = FALSE
    /\ pc' = "plan"
    /\ UNCHANGED <<mgr, magOk, yoko, paused, proc, par, ideal, loop, plan, i, voltage, reading, emitted,
                   stop, outcome, hw, polls, sleeps, firstRead, settled, slept,
                   conv, commanded, stopN, stopPc, cancels>>

\* The operator asks the run to stop.
RequestStop ==
    /\ ~stop
    /\ pc \notin {"shutdown", "end"}
    /\ stop' = TRUE
    /\ stopN' = Len(emitted)
    /\ stopPc' = pc
    /\ UNCHANGED <<mgr, magOk, yoko, paused, proc, par, ideal, pc, loop, plan, i, voltage, reading,
                   emitted, outcome, handles, faults, hw, polls, sleeps,
                   firstRead, settled, slept, conv, commanded, cancels>>

\* ------------------------------------------------ YokogawaGS200, calls

\* The variables of the scripts, which a call on the driver leaves alone.
scriptVars == <<proc, par, ideal, pc, loop, plan, i, voltage, reading, emitted,
                stop, outcome, handles, faults, hw, polls, sleeps, firstRead,
                settled, slept, conv, commanded, stopN, stopPc, cancels, paused,
                magOk>>

Levels == (0 - MaxLevel)..MaxLevel

RampTimes == 0..MaxRampTime

\* Requests made of source_range: below, at and above the lowest range.
RangeRequests == {SourceRanges[1] - 1, SourceRanges[1], SourceRanges[1] + 1}

\* The record of a call that has not asked, written or raised yet.
Call(op, level, time) ==
    [yoko EXCEPT !.op = op, !.level = level, !.time = time, !.asked = <<>>,
                 !.calls = <<>>, !.wrote = <<>>, !.raised = "none", !.ret = "none"]

\* source_enabled = b
SetSourceEnabled ==
    /\ \E b \in BOOLEAN :
         yoko' = [Call("source_enabled", 0, 0) EXCEPT
                    !.enabled = b,
                    !.wrote = <<[cmd |-> "OUTPut:STATe", arg |-> IF b THEN 1 ELSE 0]>>]
    /\ UNCHANGED <<scriptVars, mgr>>

\* source_mode = m: strict_discrete_set lets the keys of values through and
\* the value is written as given.
SetSourceMode ==
    /\ \E m \in DOMAIN SourceModes \cup {"resistance"} :
         yoko' = IF m \in DOMAIN SourceModes
                 THEN [Call("source_mode", 0, 0) EXCEPT
                         !.mode = m,
                         !.func = SourceModes[m],
                         !.wrote = <<[cmd |-> ":SOURce:FUNCtion", arg |-> 0]>>]
                 ELSE [Call("source_mode", 0, 0) EXCEPT !.raised = "ValueError"]
    /\ UNCHANGED <<scriptVars, mgr>>

\* source_range = r
SetSourceRange ==
    /\ \E r \in RangeRequests :
         LET t == TruncatedDiscreteSet(r, SourceRanges)
         IN  yoko' = [Call("source_range", 0, 0) EXCEPT
                        !.range = t,
                        !.wrote = <<[cmd |-> "SOURce:RANGe", arg |-> t]>>]
    /\ UNCHANGED <<scriptVars, mgr>>

\* source_level = level
SetSourceLevel ==
    /\ \E level \in Levels :
         LET c == Call("source_level", level, 0)
             r == SourceLevelSet(level, yoko.range)
         IN  yoko' = [c EXCEPT !.asked = <<":SOURce:RANGe?">>,
                               !.wrote = r.wrote, !.raised = r.raised]
    /\ UNCHANGED <<scriptVars, mgr>>

\* trigger_ramp_to_level(level, ramp_time)
TriggerRampToLevel ==
    /\ \E level \in Levels, t \in RampTimes :
         LET c == [Call("trigger_ramp_to_level", level, t) EXCEPT
                     !.asked = <<"OUTPut:STATe?">>]
             r == SourceLevelSet(level, yoko.range)
         IN  yoko' =
               IF ~yoko.enabled
               THEN [c EXCEPT !.raised = "ValueError"]
               ELSE IF RampIsInstant(t)
               THEN [c EXCEPT !.asked = <<"OUTPut:STATe?", ":SOURce:RANGe?">>,
                              !.calls = <<"source_level">>,
                              !.wrote = r.wrote, !.raised = r.raised]
               ELSE [c EXCEPT !.wrote = <<[cmd |-> ":program", arg |-> level]>>]
    /\ UNCHANGED <<scriptVars, mgr>>

\* measure_voltage()
MeasureVoltage ==
    /\ LET c == [Call("measure_voltage", 0, 0) EXCEPT !.asked = <<":SOURce:FUNCtion?">>]
       IN  yoko' =
             IF SourceModeGet(yoko.func) # "current"
             THEN [c EXCEPT !.raised = "ValueError"]
             ELSE [c EXCEPT !.asked = <<":SOURce:FUNCtion?", ":MEASure:VOLTage?">>,
                            !.ret = "float"]
    /\ UNCHANGED <<scriptVars, mgr>>

\* measure_current()
MeasureCurrent ==
    /\ LET c == [Call("measure_current", 0, 0) EXCEPT !.asked = <<":SOURce:FUNCtion?">>]
       IN  yoko' =
             IF SourceModeGet(yoko.func) # "voltage"
             THEN [c EXCEPT !.raised = "ValueError"]
             ELSE [c EXCEPT !.asked = <<":SOURce:FUNCtion?", ":MEASure:CURRent?">>,
                            !.ret = "float"]
    /\ UNCHANGED <<scriptVars, mgr>>

\* ------------------------------------------------- the window's queue

\* The manager starts an experiment only when none is running.
CanStart_always(m) == TRUE

CanStart(m) == m.running = {}

\* Body of the loop of queue(): a procedure is made, its field is set to the
\* next value of the plan and the experiment is handed to the manager.
Enqueue ==
    /\ mgr.k < Len(Plan(proc, par))
    /\ mgr' = [mgr EXCEPT !.k = mgr.k + 1,
                          !.queued = Append(mgr.queued, Plan(proc, par)[mgr.k + 1])]
    /\ UNCHANGED <<scriptVars, yoko>>

\* The manager starts the first experiment that has not been started: its
\* procedure enters startup.
StartNext ==
    /\ CanStart(mgr)
    /\ mgr.started < Len(mgr.queued)
    /\ mgr' = [mgr EXCEPT !.started = mgr.started + 1,
                          !.running = mgr.running \cup {mgr.started + 1}]
    /\ UNCHANGED <<scriptVars, yoko>>

\* The procedure of a running experiment has left shutdown.
FinishRun ==
    /\ \E e \in mgr.running : mgr' = [mgr EXCEPT !.running = mgr.running \ {e}]
    /\ UNCHANGED <<scriptVars, yoko>>

Next ==
    \/ Queue
    \/ Configure
    \/ SettlePoll
    \/ SettleSleep
    \/ PostSettle
    \/ MagnetCheck
    \/ SetField
    \/ BuildPlan
    \/ StartRamp
    \/ Command
    \/ Wait
    \/ Sample
    \/ Emit
    \/ Pause
    \/ Target
    \/ CheckStop
    \/ Shutdown
    \/ Fault
    \/ Swallow
    \/ RequestStop

Spec == Init /\ [][Next]_vars

\* The script's own steps are taken as long as one is possible; the operator
\* and the failures are not obliged to act.
Step ==
    \/ Queue
    \/ Configure
    \/ SettlePoll
    \/ SettleSleep
    \/ PostSettle
    \/ MagnetCheck
    \/ SetField
    \/ BuildPlan
    \/ StartRamp
    \/ Command
    \/ Wait
    \/ Sample
    \/ Emit
    \/ Pause
    \/ Target
    \/ CheckStop
    \/ Shutdown

FairSpec == Init /\ [][Next]_vars /\ WF_vars(Step)

\* A session on the driver: iv_yokogawa has created the source and calls are
\* made on it in any order.
DriverInit ==
    /\ Init
    /\ proc = "iv"
    /\ par = [max |-> 0, min |-> 0, step |-> 1, ref |-> 1, f0 |-> 0, f1 |-> 0,
              volt |-> 0]
    /\ ideal

DriverNext ==
    \/ SetSourceEnabled
    \/ SetSourceMode
    \/ SetSourceRange
    \/ SetSourceLevel
    \/ TriggerRampToLevel
    \/ MeasureVoltage
    \/ MeasureCurrent

DriverSpec == DriverInit /\ [][DriverNext]_vars

\* The window of cryo_tempfieldsweep_4probe: queue() fills the manager while
\* the manager runs what it holds.
QueueInit ==
    /\ Init
    /\ proc = "tempfield"

QueueNext ==
    \/ Enqueue
    \/ StartNext
    \/ FinishRun

QueueSpec == QueueInit /\ [][QueueNext]_vars

\* ------------------------------------------------------------------ claims

Ended == pc = "end"

SettlePcs == {"settle", "settle_sleep"}

\* C1 as stated: every emitted measurement was preceded, since its setpoint
\* was commanded, by a readback within tolerance of that setpoint.
C1_SettledBeforeEmit ==
    \A k \in 1..Len(emitted) : emitted[k].conv

\* C1 as amended: every emitted measurement was preceded, since its setpoint
\* was commanded, by the script's wait, and its setpoint had been commanded;
\* no readback within tolerance is required.
C1_WaitedBeforeEmit ==
    \A k \in 1..Len(emitted) :
        /\ emitted[k].slept
        /\ commanded >= (IF proc \in Stepped THEN emitted[k].step ELSE 1)

\* A record of the field sweep whose readback was not at the setpoint.
C1_Witness ==
    /\ proc = "field4"
    /\ Len(emitted) >= 2
    /\ emitted[2].slept
    /\ ~emitted[2].conv

\* C2: a stepped sweep that was not stopped and in which no instrument call
\* failed has emitted, when it ends, at least one measurement per setpoint
\* of the plan, in plan order.
C2_OnePerSetpoint ==
    (Ended /\ proc \in Stepped /\ ~stop /\ faults = 0 /\ outcome # "exit") =>
        /\ Len(emitted) >= Len(Plan(proc, par))
        /\ \A k \in 1..Len(Plan(proc, par)) : emitted[k].sp = Plan(proc, par)[k]

\* Positions between the emit of a step and the command of the next one.
BeforePoll(p) == IF p = "field4" THEN {"pause", "check"} ELSE {"check"}

AfterPoll(p) == IF p = "test" THEN {"pause", "cmd"} ELSE {"cmd"}

\* C3 as stated: a stop raised after step k is complete and before step k+1
\* begins gives exactly k measurements, a cancelled run and one execution
\* of the cancel branch.
C3_ExactlyK ==
    (/\ Ended
     /\ proc \in Stepped
     /\ stop
     /\ stopN >= 1
     /\ stopN < Len(plan)
     /\ stopPc \in BeforePoll(proc) \cup AfterPoll(proc)
     /\ outcome \notin Exceptions) =>
        /\ Len(emitted) = stopN
        /\ outcome = "cancelled"
        /\ cancels = 1

\* C3 as amended: a stop raised after the emit of step k and before the
\* stop check that ends iteration k gives exactly k measurements; a stop
\* raised after that check and before step k+1 is commanded gives k+1; in
\* both cases the run is cancelled and the cancel branch is executed once.
C3_KBeforePoll ==
    (/\ Ended
     /\ proc \in Stepped
     /\ stop
     /\ stopN >= 1
     /\ outcome \notin Exceptions) =>
        /\ stopPc \in BeforePoll(proc) =>
              /\ Len(emitted) = stopN
              /\ outcome = "cancelled"
              /\ cancels = 1
        /\ (stopPc \in AfterPoll(proc) /\ stopN < Len(plan)) =>
              /\ Len(emitted) = stopN + 1
              /\ outcome = "cancelled"
              /\ cancels = 1

\* A run stopped between the stop check of step 1 and the command of step 2.
C3_Witness ==
    /\ Ended
    /\ proc = "field4"
    /\ stopPc = "cmd"
    /\ stopN = 1
    /\ Len(emitted) = 2
    /\ outcome = "cancelled"

\* C4 as stated: an iteration that is about to begin while the stop is
\* already requested commands no setpoint and takes no sample.
C4_CheckedBeforeIteration ==
    [][ /\ (stop /\ pc = "cmd") => commanded' = commanded
        /\ (stop /\ pc = "wait" /\ proc \in Continuous) => pc' # "sample" ]_vars

\* C4 as amended: the stop is consulted only at the end of an iteration,
\* after its emit; an iteration that is about to begin while the stop is
\* already requested still commands its setpoint, and the run is cancelled
\* only by the stop check that follows the emit of that iteration.
C4_CheckedAfterEmit ==
    [][ /\ (stop /\ pc = "cmd" /\ handles /\ pc' # pc) =>
              (commanded' = commanded + 1 \/ outcome' \in Exceptions)
        /\ (outcome' = "cancelled" /\ outcome # "cancelled") =>
              (pc = "check" /\ Len(emitted) = i /\ Len(emitted) >= 1) ]_vars

\* A stop requested before the first iteration, whose measurement exists.
C4_Witness ==
    /\ stopN = 0
    /\ stopPc \in {"config", "plan", "cmd"}
    /\ proc \in Stepped
    /\ outcome = "cancelled"
    /\ Len(emitted) = 1

\* C5: a division by a zero reference current never ends the run with an
\* exception, and the record of a non-zero voltage over a zero reference
\* carries NaN as its resistance.
C5_NaNOnZeroReference ==
    /\ outcome # "ZeroDivisionError"
    /\ \A k \in 1..Len(emitted) :
          (emitted[k].res.kind # "none" /\ emitted[k].res.den = 0 /\ emitted[k].v # 0)
              => emitted[k].res.kind = "nan"

\* C6: a settle loop whose first readback check sees a value within
\* tolerance is left after exactly one check and without any sleep.
C6_OnePoll ==
    (pc = "postsettle" /\ Converged(firstRead, SettleTarget, SettleTol(proc, loop)))
        => (polls = 1 /\ sleeps = 0)

\* The start-field loop left by a first readback equal to the setpoint.
C6_Witness ==
    /\ pc = "postsettle"
    /\ loop = "field"
    /\ firstRead = SettleTarget
    /\ polls = 1
    /\ sleeps = 0

\* C7 as stated: the settle wait always ends.
C7_SettleEnds ==
    (pc \in SettlePcs) ~> (pc \notin SettlePcs)

\* C7 as amended: a settle loop has no timeout; it is left only by a
\* readback check within tolerance or by a failing instrument call.
C7_NoTimeoutExit ==
    [][ (pc \in SettlePcs /\ pc' \notin SettlePcs) =>
           \/ (pc = "settle" /\ Converged(reading', SettleTarget, SettleTol(proc, loop)))
           \/ outcome' = "HardwareFault" ]_vars

\* A settle loop still polling after MaxPolls sleeps.
C7_Witness ==
    /\ pc = "settle"
    /\ sleeps = MaxPolls
    /\ polls = MaxPolls
    /\ ~Converged(reading, SettleTarget, SettleTol(proc, loop))

\* C8: with readbacks that equal the last written setpoint, no stop and no
\* failing instrument call, a stepped sweep ends with exactly one record
\* per setpoint, the i-th record carrying the i-th setpoint.
C8_ExactlyNTagged ==
    (Ended /\ proc \in Stepped /\ ideal /\ ~stop /\ faults = 0 /\ outcome # "exit") =>
        /\ Len(emitted) = Len(Plan(proc, par))
        /\ \A k \in 1..Len(emitted) : emitted[k].ctl = Plan(proc, par)[k]

\* C9: a stop raised between the command and the emit of a step does not
\* keep that step's measurement from being emitted before the run is
\* cancelled, and a run cancelled by a stop raised inside a startup settle
\* loop has left every settle loop through convergence and has sampled.
C9_StopNotPreemptive ==
    outcome = "cancelled" =>
        /\ stopPc \in {"wait", "sample", "emit"} => Len(emitted) >= stopN + 1
        /\ stopPc \in SettlePcs =>
              /\ "temp" \in settled
              /\ proc = "fieldv" => "field" \in settled
              /\ Len(emitted) >= 1

\* A run cancelled by a stop that was raised while a settle loop slept.
C9_Witness ==
    /\ outcome = "cancelled"
    /\ stopPc = "settle_sleep"
    /\ Len(emitted) >= 1

\* C10: a failed instrument call ends the run at once with that failure.
C10_FailureAborts ==
    faults > 0 => (outcome = "HardwareFault" /\ pc \in {"shutdown", "end"})

\* The ways a run ends other than by completing or by being cancelled: an
\* exception, SystemExit included, has left startup or execute.
FaultOutcomes == Exceptions \cup {"exit"}

SweepCompleted ==
    IF proc \in Stepped THEN Len(emitted) = Len(plan)
    ELSE Converged(reading, RampTarget, StopTol(proc))

\* C12: a run ends as cancelled exactly when the cancel branch of its loop
\* was taken, which needs a stop request; a run ends as done only when the
\* loop ran to its end without taking that branch.  The two outcomes never
\* coincide, in every script.
C12_CancelledNotDone ==
    /\ outcome = "cancelled" => (stop /\ cancels = 1)
    /\ outcome = "done" => (cancels = 0 /\ SweepCompleted)
    /\ cancels > 0 => outcome = "cancelled"

\* A temperature sweep ended by the operator after its first record.
C12_Witness ==
    /\ Ended
    /\ proc = "tempv"
    /\ outcome = "cancelled"
    /\ Len(emitted) = 1
    /\ ~SweepCompleted

\* C13: in a stepped sweep the setpoint of step k+1 is commanded only when
\* the records of steps 1..k have all been emitted.
C13_NoOverlap ==
    [][ (proc \in Stepped /\ commanded' = commanded + 1) =>
            /\ Len(emitted) = commanded
            /\ i = commanded + 1 ]_vars

\* The second setpoint of a field sweep, commanded after the first record.
C13_Witness ==
    /\ proc = "field4"
    /\ pc = "wait"
    /\ commanded = 2
    /\ Len(emitted) = 1

\* Scripts that build a three-leg plan.
PlanBuilders == {"iv", "field4", "tempfield"}

\* C14: a plan that was built is the ascending leg from 0 to the maximum,
\* then the descending leg from the maximum to the minimum, then the
\* ascending leg from the minimum towards 0, and any two consecutive
\* setpoints of it differ by exactly one step.
C14_ThreeLegs ==
    (proc \in PlanBuilders /\ plan # <<>>) =>
        /\ plan = Arange(0, par.max, par.step)
                     \o Arange(par.max, par.min, 0 - par.step)
                     \o Arange(par.min, 0, par.step)
        /\ \A k \in 1..(Len(plan) - 1) : Abs(plan[k + 1] - plan[k]) = par.step

\* C15: in a continuous sweep every iteration in which no instrument call
\* fails sleeps the sample interval, then samples, then emits exactly one
\* record, iteration n emitting record n; the target test follows the emit
\* and ends the loop as done exactly when its readback is within tolerance
\* of the target, so at least one record exists when the loop ends as done.
C15_ContinuousLoop ==
    [][ (proc \in Continuous) =>
          /\ (pc' = "sample" /\ pc # "sample") => (pc = "wait" /\ slept')
          /\ (pc' = "emit" /\ pc # "emit") => pc = "sample"
          /\ (emitted' # emitted) =>
                (pc = "emit" /\ Len(emitted) = i - 1 /\ Len(emitted') = i /\ slept)
          /\ (pc = "emit" /\ pc' # "emit" /\ outcome' # "HardwareFault") =>
                (Len(emitted') = i /\ pc' = "target")
          /\ (pc = "target" /\ pc' # "target" /\ outcome' # "HardwareFault") =>
                (outcome' = "done" <=> Converged(reading', RampTarget, StopTol(proc)))
          /\ (outcome' = "done" /\ outcome # "done") =>
                (pc = "target" /\ Len(emitted) = i /\ i >= 1) ]_vars

\* C16: no sample that feeds a record is taken, and no record is emitted,
\* unless every settle loop of startup was left through convergence and was
\* followed by its pause.
C16_PauseBeforeSample ==
    (pc \in {"sample", "emit"} \/ Len(emitted) >= 1) =>
        /\ settled \subseteq paused
        /\ proc \notin {"iv", "test"} => "temp" \in paused
        /\ proc = "fieldv" => "field" \in paused

\* A field ramp sampling after both of its settle loops and their pauses.
C16_Witness ==
    /\ proc = "fieldv"
    /\ settled = {"temp", "field"}
    /\ paused = {"temp", "field"}
    /\ Len(emitted) >= 1

\* C17: the keys of every emitted record are the procedure's DATA_COLUMNS.
C17_AllColumns ==
    \A k \in 1..Len(emitted) : emitted[k].keys = DataColumns(proc)

\* C18: the setter of source_level raises ValueError and writes nothing for
\* a level beyond 1.2 times the range in magnitude, positive or negative,
\* and writes exactly one SOURce:LEVel command otherwise; no level beyond
\* that magnitude is ever written.
C18_LevelWithinRange ==
    /\ \A k \in 1..Len(yoko.wrote) :
          yoko.wrote[k].cmd = "SOURce:LEVel" =>
              Abs(yoko.wrote[k].arg) * 10 <= yoko.range * 12
    /\ yoko.op = "source_level" =>
          IF Abs(yoko.level) * 10 > yoko.range * 12
          THEN yoko.raised = "ValueError" /\ yoko.wrote = <<>>
          ELSE /\ yoko.raised = "none"
               /\ yoko.wrote = <<[cmd |-> "SOURce:LEVel", arg |-> yoko.level]>>

\* C19: trigger_ramp_to_level raises ValueError and writes nothing when the
\* source is not enabled; enabled and with a ramp time below MIN_RAMP_TIME
\* it goes through the setter of source_level and writes no ramp program;
\* otherwise it writes one ramp program and does not call the setter.
C19_RampBranches ==
    yoko.op = "trigger_ramp_to_level" =>
        CASE ~yoko.enabled ->
                /\ yoko.raised = "ValueError"
                /\ yoko.wrote = <<>>
                /\ yoko.calls = <<>>
          [] yoko.enabled /\ yoko.time < MinRampTime ->
                /\ yoko.calls = <<"source_level">>
                /\ \A k \in 1..Len(yoko.wrote) : yoko.wrote[k].cmd = "SOURce:LEVel"
                /\ Len(yoko.wrote) <= 1
                /\ yoko.raised = "none" <=> Len(yoko.wrote) = 1
          [] OTHER ->
                /\ yoko.raised = "none"
                /\ yoko.calls = <<>>
                /\ yoko.wrote = <<[cmd |-> ":program", arg |-> yoko.level]>>

\* An instantaneous ramp that set the level through the setter.
C19_Witness ==
    /\ yoko.op = "trigger_ramp_to_level"
    /\ yoko.enabled
    /\ yoko.time < MinRampTime
    /\ yoko.calls = <<"source_level">>
    /\ yoko.wrote = <<[cmd |-> "SOURce:LEVel", arg |-> yoko.level]>>

\* C20: once source_mode was set to 'current', measure_voltage returns a
\* value and does not raise, and likewise measure_current once it was set
\* to 'voltage'; either raises only with the instrument in the other mode.
C20_MeasureInMode ==
    /\ yoko.op = "measure_voltage" =>
          /\ yoko.mode = "current" => (yoko.raised = "none" /\ yoko.ret = "float")
          /\ yoko.raised = "ValueError" => yoko.func = SourceModes["voltage"]
    /\ yoko.op = "measure_current" =>
          /\ yoko.mode = "voltage" => (yoko.raised = "none" /\ yoko.ret = "float")
          /\ yoko.raised = "ValueError" => yoko.func = SourceModes["current"]

C22_CheckedBeforeField ==
    hw.magnet # 0 => magOk

\* C23: after a run that completed or was cancelled has gone through
\* shutdown, the last magnet command is zero, the heaters are off with a
\* control setpoint of 0, and the current source is at level 0 or disabled.
C23_DeEnergized ==
    (Ended /\ outcome \in {"done", "cancelled"}) =>
        /\ hw.magnet = 0
        /\ ~hw.heat
        /\ hw.tset = 0
        /\ (hw.level = 0 \/ ~hw.srcOn)

\* C24 as stated: when a continuous sweep ends as completed, the control
\* value recorded in its last record is within the stop tolerance of the
\* target.
C24_RecordedAtTarget ==
    (proc \in Continuous /\ outcome = "done") =>
        /\ Len(emitted) >= 1
        /\ Converged(emitted[Len(emitted)].ctl, RampTarget, StopTol(proc))

\* C24 as amended: when a continuous sweep ends as completed, the readback
\* that the target test took after the last emit is within the stop
\* tolerance of the target and at least one record exists; the recorded
\* value is an earlier readback and is not constrained.
C24_TestedAtTarget ==
    (proc \in Continuous /\ outcome = "done") =>
        /\ Len(emitted) >= 1
        /\ Converged(reading, RampTarget, StopTol(proc))

\* A completed temperature ramp whose last record is away from the target.
C24_Witness ==
    /\ proc = "tempv"
    /\ outcome = "done"
    /\ Len(emitted) >= 1
    /\ ~Converged(emitted[Len(emitted)].ctl, RampTarget, StopTol(proc))
    /\ Converged(reading, RampTarget, StopTol(proc))

\* C25: in a continuous sweep, when the target test sees a readback within
\* tolerance while a stop is requested, the loop ends as done: the cancel
\* branch is not taken and execute sends none of its commands.
C25_TargetBeforeStop ==
    [][ (/\ proc \in Continuous
         /\ pc = "target"
         /\ pc' # "target"
         /\ stop
         /\ outcome' # "HardwareFault"
         /\ Converged(reading', RampTarget, StopTol(proc))) =>
            /\ outcome' = "done"
            /\ pc' = "shutdown"
            /\ cancels' = 0
            /\ hw' = hw ]_vars

\* A lock-in sweep that reached its target in the iteration in which the
\* operator asked for a stop.
C25_Witness ==
    /\ proc = "lockin"
    /\ pc = "shutdown"
    /\ outcome = "done"
    /\ stop
    /\ stopPc \in {"wait", "sample", "emit", "target"}
    /\ stopN = Len(emitted) - (IF stopPc = "target" THEN 0 ELSE 1)
    /\ cancels = 0
    /\ hw.heat

\* C26: when queue() has gone through its plan, the manager holds one
\* experiment per setpoint, in plan order, the i-th with the i-th setpoint
\* as its field, and the plan is the plan that the field sweep builds from
\* the same maximum, minimum and step.
C26_QueuedPlan ==
    (proc = "tempfield" /\ mgr.k = Len(Plan(proc, par))) =>
        /\ Len(mgr.queued) = Len(Plan(proc, par))
        /\ \A n \in 1..Len(mgr.queued) : mgr.queued[n] = Plan(proc, par)[n]
        /\ Plan(proc, par) = Plan("field4", par)

\* Number of places of a plan that hold the value v.
Count(q, v) == Cardinality({k \in 1..Len(q) : q[k] = v})

\* A plan of iv_yokogawa or cryo_fieldsweep_4probe has been built from a
\* maximum above 0 and a minimum below 0 that are multiples of the step.
WholePlan ==
    /\ proc \in {"iv", "field4"}
    /\ plan # <<>>
    /\ par.max > 0
    /\ par.min < 0
    /\ par.max % par.step = 0
    /\ (0 - par.min) % par.step = 0

\* C27 as stated: such a plan starts at 0, has 2*(max-min)/step setpoints,
\* holds max once and min once, ends at -step and holds 0 nowhere but at
\* its start.
C27_ZeroNotRevisited ==
    WholePlan =>
        /\ plan[1] = 0
        /\ Len(plan) = (2 * (par.max - par.min)) \div par.step
        /\ Count(plan, par.max) = 1
        /\ Count(plan, par.min) = 1
        /\ plan[Len(plan)] = 0 - par.step
        /\ \A k \in 2..Len(plan) : plan[k] # 0

\* C27 as amended: such a plan starts at 0, has 2*(max-min)/step setpoints,
\* holds max once and min once, ends at -step and holds 0 twice, at its
\* start and on the descending leg; as it does not end at 0, a run that
\* completed or was cancelled has its output at zero only by the commands
\* of the cancel branch and of shutdown.
C27_ZeroOnDescent ==
    WholePlan =>
        /\ plan[1] = 0
        /\ Len(plan) = (2 * (par.max - par.min)) \div par.step
        /\ Count(plan, par.max) = 1
        /\ Count(plan, par.min) = 1
        /\ plan[Len(plan)] = 0 - par.step
        /\ Count(plan, 0) = 2
        /\ plan[1 + (2 * par.max) \div par.step] = 0
        /\ (pc = "shutdown" /\ outcome = "done") =>
              (IF proc = "iv" THEN hw.level ELSE hw.magnet) = 0 - par.step
        /\ (Ended /\ outcome \in {"done", "cancelled"}) =>
              (IF proc = "iv" THEN hw.level ELSE hw.magnet) = 0

\* A current sweep that has emitted its last setpoint, -step.
C27_Witness ==
    /\ WholePlan
    /\ proc = "iv"
    /\ pc = "shutdown"
    /\ outcome = "done"
    /\ Len(emitted) = Len(plan)
    /\ hw.level = 0 - par.step

====
